---- MODULE Spec2Model ----
(***************************************************************************)
(* Model of the three-stage batch pipeline of What_consist_a_good_game:    *)
(*   Collector  Data_collection/fetch_raw_data.py                          *)
(*   Cleaner    Data_cleaning/clean_data.py                                *)
(*   Loader     Data_load/load_to_db.py                                    *)
(* Each stage is a sequential program; it is modelled as a state machine   *)
(* whose steps are the stage's calls to the outside world (HTTP calls,     *)
(* SQL statements, file writes), each with the outcomes the call can have. *)
(* The stages are run by separate processes, hence one specification per   *)
(* stage: SpecLoader, SpecCleaner, SpecCollector.                          *)
(***************************************************************************)
EXTENDS Integers, Sequences, FiniteSets, TLC

VARIABLES
    \* ---- Loader (load_clean_data_to_db) ----
    lpc,        \* position in load_clean_data_to_db
    csvCols,    \* set of column names of the CSV read at line 59
    nRows,      \* number of rows of the CSV
    oldRows,    \* number of rows of table games before the call
    committed,  \* table games as other sessions see it: [old, new] row counts
    txn,        \* table games as the loader's open transaction sees it
    stmts,      \* statements sent to the store, in order: [op, rows]
    records,    \* len(records): tuples built by the loop of lines 144-206
    sent,       \* rows already sent by execute_values
    lRaised,    \* the exception load_clean_data_to_db ends with ("none" if none)
    errCols,    \* the column list in the ValueError of line 77
    connOpened, \* get_connection() returned a connection
    observed,   \* what a concurrent reader last saw of table games
    \* ---- Cleaner (clean_raw_data) ----
    kpc,        \* position in clean_raw_data
    raw,        \* the records of the input JSON file
    df_clean,   \* the frame after the filter of lines 36-40
    cleanOut,   \* the rows of the CSV written at line 73
    kWritten,   \* the CSV has been written
    kRaised,    \* the exception clean_raw_data ends with ("none" if none)
    \* ---- Collector (fetch_and_save_raw_data) ----
    cpc,        \* position in fetch_and_save_raw_data
    listOut,    \* outcome of the catalog-listing call ("none" before it)
    app_ids,    \* the identifiers get_sample_app_ids returned
    idx,        \* enumerate index of the identifier being processed
    visited,    \* identifiers whose processing has started, in order
    detailsOut, \* per identifier, outcome of the appdetails call
    reviewOut,  \* per identifier, outcome of the appreviews call
    ownersOut,  \* per identifier, outcome of the SteamSpy call
    rowOut,     \* per identifier, outcome of assembling the row
    results,    \* the list results
    slept,      \* time.sleep has run since the last per-item upstream call
    cOut,       \* the records of the JSON file written at lines 193-194
    cWritten,   \* the JSON file has been written
    cRaised     \* the exception fetch_and_save_raw_data ends with

lvars == <<lpc, csvCols, nRows, oldRows, committed, txn, stmts, records, sent,
           lRaised, errCols, connOpened, observed>>

kvars == <<kpc, raw, df_clean, cleanOut, kWritten, kRaised>>

cvars == <<cpc, listOut, app_ids, idx, visited, detailsOut, reviewOut, ownersOut,
           rowOut, results, slept, cOut, cWritten, cRaised>>

vars == <<lvars, kvars, cvars>>

----------------------------------------------------------------------------
(* Loader *)

\* execute_values(cur, sql, argslist, template=None, page_size=100): the call
\* of line 209 leaves page_size at its default.
PageSize == 100

\* Bounds of the model.
MaxPages == 2
MaxOld == 2

\* Sizes of the CSV: around every page boundary up to MaxPages full pages.
RowCounts == { p * PageSize + d : p \in 0..MaxPages, d \in 0..1 }

expected_cols ==
    << "app_id", "name", "original_price_usd", "current_price_usd", "is_free",
       "owners_proxy", "total_reviews", "review_ratio", "days_since_release",
       "main_genre", "release_date" >>

ExpectedSet == { expected_cols[i] : i \in 1..Len(expected_cols) }

\* missing = [c for c in expected_cols if c not in df.columns]
MissingFirstOnly(cols) ==
    LET IsMissing(c) == c \notin cols
        all == SelectSeq(expected_cols, IsMissing)
    IN  IF all = << >> THEN << >> ELSE << Head(all) >>

Missing(cols) ==
    LET IsMissing(c) == c \notin cols
    IN  SelectSeq(expected_cols, IsMissing)

\* conn.autocommit = False
AutocommitOn == TRUE

Autocommit == FALSE

Table(o, n) == [old |-> o, new |-> n]

NoObs == [old |-> -1, new |-> -1]

Stmt(op, n) == [op |-> op, rows |-> n]

\* What other sessions see after a statement of the loader's session: nothing
\* of it until COMMIT, unless the connection is in autocommit mode.
AfterStmt(t) == IF Autocommit THEN t ELSE committed

Min(a, b) == IF a < b THEN a ELSE b

InitLoader ==
    /\ lpc = "validate"
    /\ csvCols \in SUBSET ExpectedSet
    /\ nRows \in RowCounts
    /\ oldRows \in 0..MaxOld
    /\ committed = Table(oldRows, 0)
    /\ txn = Table(oldRows, 0)
    /\ stmts = << >>
    /\ records = 0
    /\ sent = 0
    /\ lRaised = "none"
    /\ errCols = << >>
    /\ connOpened = FALSE
    /\ observed = NoObs

\* Lines 75-77: a missing column raises ValueError naming the missing columns.
ValidateColumns ==
    /\ lpc = "validate"
    /\ IF Missing(csvCols) # << >>
       THEN /\ lpc' = "failed"
            /\ lRaised' = "ValueError"
            /\ errCols' = Missing(csvCols)
       ELSE /\ lpc' = "convert"
            /\ UNCHANGED <<lRaised, errCols>>
    /\ UNCHANGED <<csvCols, nRows, oldRows, committed, txn, stmts, records, sent,
                   connOpened, observed>>
    /\ UNCHANGED <<kvars, cvars>>

\* Lines 79-111: type conversions and JSON fields, before any connection.
\* astype(bool) and float() can raise on a malformed cell.
ConvertTypes ==
    /\ lpc = "convert"
    /\ \E ok \in BOOLEAN :
         IF ok
         THEN lpc' = "connect" /\ UNCHANGED lRaised
         ELSE lpc' = "failed" /\ lRaised' = "ConvertError"
    /\ UNCHANGED <<csvCols, nRows, oldRows, committed, txn, stmts, records, sent,
                   errCols, connOpened, observed>>
    /\ UNCHANGED <<kvars, cvars>>

\* Lines 115-117: get_connection() raises RuntimeError (PGUSER unset) or the
\* driver's connection error; both are outside the try block.
GetConnection ==
    /\ lpc = "connect"
    /\ \E ok \in BOOLEAN :
         IF ok
         THEN lpc' = "truncate" /\ connOpened' = TRUE /\ UNCHANGED lRaised
         ELSE lpc' = "failed" /\ lRaised' = "ConnectError" /\ UNCHANGED connOpened
    /\ UNCHANGED <<csvCols, nRows, oldRows, committed, txn, stmts, records, sent,
                   errCols, observed>>
    /\ UNCHANGED <<kvars, cvars>>

\* Line 122: cur.execute("TRUNCATE TABLE games;")
Truncate ==
    /\ lpc = "truncate"
    /\ stmts' = Append(stmts, Stmt("TRUNCATE", 0))
    /\ \E ok \in BOOLEAN :
         IF ok
         THEN /\ txn' = Table(0, 0)
              /\ committed' = AfterStmt(Table(0, 0))
              /\ lpc' = "build"
         ELSE /\ UNCHANGED <<txn, committed>>
              /\ lpc' = "rollback"
    /\ UNCHANGED <<csvCols, nRows, oldRows, records, sent, lRaised, errCols,
                   connOpened, observed>>
    /\ UNCHANGED <<kvars, cvars>>

\* Lines 144-206: one tuple per row; int(row["app_id"]) raises on a bad cell.
BuildRecords ==
    /\ lpc = "build"
    /\ \E ok \in BOOLEAN :
         IF ok
         THEN lpc' = "insert" /\ records' = nRows
         ELSE lpc' = "rollback" /\ UNCHANGED records
    /\ UNCHANGED <<csvCols, nRows, oldRows, committed, txn, stmts, sent, lRaised,
                   errCols, connOpened, observed>>
    /\ UNCHANGED <<kvars, cvars>>

\* A row-by-row insertion: one INSERT statement per tuple.
InsertRowByRow ==
    /\ lpc = "insert"
    /\ sent < records
    /\ stmts' = Append(stmts, Stmt("INSERT", 1))
    /\ \E ok \in BOOLEAN :
         IF ok
         THEN /\ txn' = Table(txn.old, txn.new + 1)
              /\ committed' = AfterStmt(Table(txn.old, txn.new + 1))
              /\ sent' = sent + 1
              /\ lpc' = "insert"
         ELSE /\ UNCHANGED <<txn, committed, sent>>
              /\ lpc' = "rollback"
    /\ UNCHANGED <<csvCols, nRows, oldRows, records, lRaised, errCols,
                   connOpened, observed>>
    /\ UNCHANGED <<kvars, cvars>>

\* Line 209, execute_values: one INSERT statement per page of at most PageSize
\* tuples, no statement for an empty list.
InsertPage ==
    /\ lpc = "insert"
    /\ sent < records
    /\ LET page == Min(PageSize, records - sent)
       IN  /\ stmts' = Append(stmts, Stmt("INSERT", page))
           /\ \E ok \in BOOLEAN :
                IF ok
                THEN /\ txn' = Table(txn.old, txn.new + page)
                     /\ committed' = AfterStmt(Table(txn.old, txn.new + page))
                     /\ sent' = sent + page
                     /\ lpc' = "insert"
                ELSE /\ UNCHANGED <<txn, committed, sent>>
                     /\ lpc' = "rollback"
    /\ UNCHANGED <<csvCols, nRows, oldRows, records, lRaised, errCols,
                   connOpened, observed>>
    /\ UNCHANGED <<kvars, cvars>>

\* Line 211: conn.commit(), once execute_values has sent every page.
Commit ==
    /\ lpc = "insert"
    /\ sent = records
    /\ stmts' = Append(stmts, Stmt("COMMIT", 0))
    /\ \E ok \in BOOLEAN :
         IF ok
         THEN /\ committed' = txn
              /\ lpc' = "done"
         ELSE /\ UNCHANGED committed
              /\ lpc' = "rollback"
    /\ UNCHANGED <<csvCols, nRows, oldRows, txn, records, sent, lRaised, errCols,
                   connOpened, observed>>
    /\ UNCHANGED <<kvars, cvars>>

\* An except block that rolls back and prints, without the raise of line 216.
RollbackSwallowed ==
    /\ lpc = "rollback"
    /\ stmts' = Append(stmts, Stmt("ROLLBACK", 0))
    /\ txn' = committed
    /\ lpc' = "done"
    /\ UNCHANGED <<csvCols, nRows, oldRows, committed, records, sent, lRaised,
                   errCols, connOpened, observed>>
    /\ UNCHANGED <<kvars, cvars>>

\* Lines 213-219: conn.rollback(), then raise; cur.close() and conn.close().
\* When rollback() itself raises (connection lost), that exception leaves the
\* function instead and the server aborts the transaction on disconnect.
Rollback ==
    /\ lpc = "rollback"
    /\ stmts' = Append(stmts, Stmt("ROLLBACK", 0))
    /\ txn' = committed
    /\ \E ok \in BOOLEAN :
         lRaised' = IF ok THEN "DbError" ELSE "RollbackError"
    /\ lpc' = "failed"
    /\ UNCHANGED <<csvCols, nRows, oldRows, committed, records, sent, errCols,
                   connOpened, observed>>
    /\ UNCHANGED <<kvars, cvars>>

\* Another session reads table games.
ReaderSelect ==
    /\ observed' = committed
    /\ observed # committed
    /\ UNCHANGED <<lpc, csvCols, nRows, oldRows, committed, txn, stmts, records,
                   sent, lRaised, errCols, connOpened>>
    /\ UNCHANGED <<kvars, cvars>>

NextLoader ==
    \/ ValidateColumns
    \/ ConvertTypes
    \/ GetConnection
    \/ Truncate
    \/ BuildRecords
    \/ InsertPage
    \/ Commit
    \/ Rollback
    \/ ReaderSelect

IdleLoader ==
    /\ lpc = "idle"
    /\ csvCols = {}
    /\ nRows = 0
    /\ oldRows = 0
    /\ committed = Table(0, 0)
    /\ txn = Table(0, 0)
    /\ stmts = << >>
    /\ records = 0
    /\ sent = 0
    /\ lRaised = "none"
    /\ errCols = << >>
    /\ connOpened = FALSE
    /\ observed = NoObs

----------------------------------------------------------------------------
(* Cleaner *)

\* MIN_REVIEWS = 50
MIN_REVIEWS == 50

\* Bound of the model: records in the input file.
MaxRecords == 2

\* A field the Collector left None (null in the JSON file, NaN in the frame).
Absent == -1

\* The fields of a raw record that decide what the Cleaner does with it:
\* the presence of release_date, owners_proxy, original_price_cents and
\* is_free, and the value of total_reviews.
RawRecords ==
    [ release_date : BOOLEAN,
      total_reviews : {Absent, MIN_REVIEWS - 1, MIN_REVIEWS},
      owners_proxy : BOOLEAN,
      original_price_cents : BOOLEAN,
      is_free : BOOLEAN ]

RawInputs == UNION { [1..n -> RawRecords] : n \in 0..MaxRecords }

\* .dropna(subset=['release_date', 'total_reviews', 'owners_proxy',
\*                 'original_price_cents'])
Dropna(df) ==
    LET AllPresent(r) == /\ r.release_date
                         /\ r.total_reviews # Absent
                         /\ r.owners_proxy
                         /\ r.original_price_cents
    IN  SelectSeq(df, AllPresent)

\* A filter that keeps only the records above the threshold.
AboveThreshold(df) ==
    LET Enough(r) == r.total_reviews > MIN_REVIEWS
    IN  SelectSeq(df, Enough)

\* df_clean[df_clean['total_reviews'] >= MIN_REVIEWS]
AtLeastMinReviews(df) ==
    LET Enough(r) == r.total_reviews >= MIN_REVIEWS
    IN  SelectSeq(df, Enough)

InitCleaner ==
    /\ kpc = "load"
    /\ raw \in RawInputs
    /\ df_clean = << >>
    /\ cleanOut = << >>
    /\ kWritten = FALSE
    /\ kRaised = "none"

IdleCleaner ==
    /\ kpc = "idle"
    /\ raw = << >>
    /\ df_clean = << >>
    /\ cleanOut = << >>
    /\ kWritten = FALSE
    /\ kRaised = "none"

\* Lines 21-30: a missing or undecodable input file is reported and the
\* function returns without writing anything.
LoadInput ==
    /\ kpc = "load"
    /\ \E status \in {"ok", "FileNotFoundError", "JSONDecodeError"} :
         kpc' = IF status = "ok" THEN "filter" ELSE "returned"
    /\ UNCHANGED <<raw, df_clean, cleanOut, kWritten, kRaised>>
    /\ UNCHANGED <<lvars, cvars>>

\* Lines 36-40. pd.DataFrame([]) has no columns, and dropna(subset=...)
\* raises KeyError for labels that are not columns.
FilterStep ==
    /\ kpc = "filter"
    /\ IF raw = << >>
       THEN /\ kpc' = "failed"
            /\ kRaised' = "KeyError"
            /\ UNCHANGED df_clean
       ELSE /\ kpc' = "derive"
            /\ df_clean' = AtLeastMinReviews(Dropna(raw))
            /\ UNCHANGED kRaised
    /\ UNCHANGED <<raw, cleanOut, kWritten>>
    /\ UNCHANGED <<lvars, cvars>>

\* Lines 45-63. df_clean['snapshot_time'].iloc[0] raises IndexError on an
\* empty frame; astype(int) raises TypeError on an is_free that is None.
DeriveStep ==
    /\ kpc = "derive"
    /\ IF df_clean = << >>
       THEN kpc' = "failed" /\ kRaised' = "IndexError"
       ELSE IF \E i \in 1..Len(df_clean) : ~df_clean[i].is_free
            THEN kpc' = "failed" /\ kRaised' = "TypeError"
            ELSE kpc' = "write" /\ UNCHANGED kRaised
    /\ UNCHANGED <<raw, df_clean, cleanOut, kWritten>>
    /\ UNCHANGED <<lvars, cvars>>

\* Line 73: df_clean[final_cols].to_csv(output_path, index=False)
WriteCsv ==
    /\ kpc = "write"
    /\ cleanOut' = df_clean
    /\ kWritten' = TRUE
    /\ kpc' = "done"
    /\ UNCHANGED <<raw, df_clean, kRaised>>
    /\ UNCHANGED <<lvars, cvars>>

NextCleaner ==
    \/ LoadInput
    \/ FilterStep
    \/ DeriveStep
    \/ WriteCsv

----------------------------------------------------------------------------
(* Collector *)

\* Bound of the model: identifiers of the catalog.
MaxIds == 2

Ids == 1..MaxIds

\* The listings: every sequence of distinct identifiers.
Listings ==
    { l \in UNION { [1..n -> Ids] : n \in 0..MaxIds } :
        \A i, j \in 1..Len(l) : i # j => l[i] # l[j] }

NoCalls == [i \in Ids |-> "none"]

\* get_app_list, lines 36-38: requests.get raises on a transport error or a
\* timeout, raise_for_status() on a non-success status, resp.json() on a
\* body that is not JSON.
ListingRaisesUnchecked(outcome) == outcome \in {"Timeout", "JSONDecodeError"}

ListingRaises(outcome) == outcome \in {"HTTPError", "Timeout", "JSONDecodeError"}

InitCollector ==
    /\ cpc = "list"
    /\ listOut = "none"
    /\ app_ids = << >>
    /\ idx = 1
    /\ visited = << >>
    /\ detailsOut = NoCalls
    /\ reviewOut = NoCalls
    /\ ownersOut = NoCalls
    /\ rowOut = NoCalls
    /\ results = << >>
    /\ slept = FALSE
    /\ cOut = << >>
    /\ cWritten = FALSE
    /\ cRaised = "none"

IdleCollector ==
    /\ cpc = "idle"
    /\ listOut = "none"
    /\ app_ids = << >>
    /\ idx = 1
    /\ visited = << >>
    /\ detailsOut = NoCalls
    /\ reviewOut = NoCalls
    /\ ownersOut = NoCalls
    /\ rowOut = NoCalls
    /\ results = << >>
    /\ slept = FALSE
    /\ cOut = << >>
    /\ cWritten = FALSE
    /\ cRaised = "none"

\* Line 142 with get_sample_app_ids and get_app_list (lines 18-51). A JSON
\* body without response.apps ("no_apps") yields the empty list through the
\* defaults of line 40; the errors of lines 36-38 leave the function.
GetAppList ==
    /\ cpc = "list"
    /\ \E outcome \in {"ok", "no_apps", "HTTPError", "Timeout", "JSONDecodeError"} :
         /\ listOut' = outcome
         /\ IF ListingRaises(outcome)
            THEN /\ cpc' = "failed"
                 /\ cRaised' = outcome
                 /\ UNCHANGED app_ids
            ELSE /\ \E l \in Listings :
                      /\ outcome = "no_apps" => l = << >>
                      /\ app_ids' = l
                      /\ cpc' = IF l = << >> THEN "write" ELSE "details"
                 /\ UNCHANGED cRaised
    /\ UNCHANGED <<idx, visited, detailsOut, reviewOut, ownersOut, rowOut, results,
                   slept, cOut, cWritten>>
    /\ UNCHANGED <<lvars, kvars>>

\* The for statement of line 145 takes the next identifier, or the loop ends.
Advance ==
    /\ idx' = idx + 1
    /\ cpc' = IF idx + 1 > Len(app_ids) THEN "write" ELSE "details"

\* An except handler that lets the exception leave the function.
ItemExceptionAborts ==
    /\ cpc' = "failed"
    /\ cRaised' = "Exception"
    /\ UNCHANGED idx

\* Lines 189-191: except Exception: print, continue.
ItemException ==
    /\ Advance
    /\ UNCHANGED cRaised

\* Lines 147-149 with fetch_app_details (lines 54-74): None unless the entry
\* is successful and of type "game"; requests.get and resp.json() can raise.
FetchAppDetails ==
    /\ cpc = "details"
    /\ LET id == app_ids[idx]
       IN  /\ visited' = Append(visited, id)
           /\ slept' = FALSE
           /\ \E outcome \in {"game", "not_game", "unsuccessful", "bad_status",
                              "exception"} :
                /\ detailsOut' = [detailsOut EXCEPT ![id] = outcome]
                /\ CASE outcome = "game" ->
                            cpc' = "reviews" /\ UNCHANGED <<idx, cRaised>>
                     [] outcome = "exception" -> ItemException
                     [] OTHER -> Advance /\ UNCHANGED cRaised
    /\ UNCHANGED <<listOut, app_ids, reviewOut, ownersOut, rowOut, results, cOut,
                   cWritten>>
    /\ UNCHANGED <<lvars, kvars>>

\* Lines 151-156 with fetch_review_summary (lines 77-94): None on a
\* non-success status; nothing catches what requests.get ("transport") or
\* resp.json() ("invalid_body") raise, so it reaches the handler of line 189.
FetchReviewSummary ==
    /\ cpc = "reviews"
    /\ LET id == app_ids[idx]
       IN  /\ slept' = FALSE
           /\ \E outcome \in {"ok", "bad_status", "invalid_body", "transport"} :
                /\ reviewOut' = [reviewOut EXCEPT ![id] = outcome]
                /\ IF outcome \in {"invalid_body", "transport"}
                   THEN ItemException
                   ELSE cpc' = "owners" /\ UNCHANGED <<idx, cRaised>>
    /\ UNCHANGED <<listOut, app_ids, visited, detailsOut, ownersOut, rowOut,
                   results, cOut, cWritten>>
    /\ UNCHANGED <<lvars, kvars>>

\* Line 158 with fetch_owners_proxy (lines 97-129): every failure is caught
\* inside the function and gives None.
FetchOwnersProxy ==
    /\ cpc = "owners"
    /\ LET id == app_ids[idx]
       IN  /\ slept' = FALSE
           /\ \E outcome \in {"ok", "bad_status", "invalid_body", "transport"} :
                ownersOut' = [ownersOut EXCEPT ![id] = outcome]
    /\ cpc' = "assemble"
    /\ UNCHANGED <<listOut, app_ids, idx, visited, detailsOut, reviewOut, rowOut,
                   results, cOut, cWritten, cRaised>>
    /\ UNCHANGED <<lvars, kvars>>

\* The row of lines 167-181: total_reviews and owners_proxy are None when
\* their call gave None.
Row(id) ==
    [ app_id |-> id,
      total_reviews |-> reviewOut[id] = "ok",
      owners_proxy |-> ownersOut[id] = "ok" ]

\* Lines 160-187: assemble the row, append it, sleep. The chained .get of
\* line 170 raises when the metadata carries a null release_date.
AssembleRow ==
    /\ cpc = "assemble"
    /\ LET id == app_ids[idx]
       IN  \E outcome \in {"ok", "exception"} :
                /\ rowOut' = [rowOut EXCEPT ![id] = outcome]
                /\ IF outcome = "ok"
                   THEN /\ results' = Append(results, Row(id))
                        /\ slept' = TRUE
                        /\ Advance
                        /\ UNCHANGED cRaised
                   ELSE /\ ItemException
                        /\ UNCHANGED <<results, slept>>
    /\ UNCHANGED <<listOut, app_ids, visited, detailsOut, reviewOut, ownersOut,
                   cOut, cWritten>>
    /\ UNCHANGED <<lvars, kvars>>

\* Lines 193-194: json.dump(results, f)
WriteOutput ==
    /\ cpc = "write"
    /\ cOut' = results
    /\ cWritten' = TRUE
    /\ cpc' = "done"
    /\ UNCHANGED <<listOut, app_ids, idx, visited, detailsOut, reviewOut, ownersOut,
                   rowOut, results, slept, cRaised>>
    /\ UNCHANGED <<lvars, kvars>>

NextCollector ==
    \/ GetAppList
    \/ FetchAppDetails
    \/ FetchReviewSummary
    \/ FetchOwnersProxy
    \/ AssembleRow
    \/ WriteOutput

LoaderRun == InitLoader /\ IdleCleaner /\ IdleCollector

CleanerRun == InitCleaner /\ IdleLoader /\ IdleCollector

CollectorRun == InitCollector /\ IdleLoader /\ IdleCleaner

SpecLoader == LoaderRun /\ [][NextLoader]_vars

SpecCleaner == CleanerRun /\ [][NextCleaner]_vars

SpecCollector == CollectorRun /\ [][NextCollector]_vars

\* The Collector is one sequential loop whose every call returns or raises
\* (each request carries a timeout), so a step that can be taken is taken.
SpecCollectorFair == SpecCollector /\ WF_vars(NextCollector)

----------------------------------------------------------------------------
(* Properties of the Loader *)

Last(s) == s[Len(s)]

CountOp(s, op) == Cardinality({ i \in 1..Len(s) : s[i].op = op })

RECURSIVE SumRows(_)
SumRows(s) == IF s = << >> THEN 0 ELSE Head(s).rows + SumRows(Tail(s))

NumPages(n) == (n + PageSize - 1) \div PageSize

PreLoad == Table(oldRows, 0)

NewSet == Table(0, nRows)

\* C1: when a step inside the transaction fails (TRUNCATE, building the
\* records, INSERT or COMMIT), the transaction is rolled back, table games
\* holds what it held before the call, and an exception leaves the function;
\* the function returns normally only after a successful COMMIT.
Thm_C1_RollbackRestores ==
    /\ (lpc = "failed" /\ connOpened) =>
            /\ Last(stmts).op = "ROLLBACK"
            /\ committed = PreLoad
            /\ txn = PreLoad
            /\ lRaised \in {"DbError", "RollbackError"}
    /\ lpc = "rollback" => (committed = PreLoad /\ lRaised = "none")
    /\ lpc = "done" =>
            /\ Last(stmts).op = "COMMIT"
            /\ lRaised = "none"

\* The insert step failed after the truncate of a non-empty table, and the
\* call has ended.
Wit_C1_InsertFailedAfterTruncate ==
    /\ lpc = "failed"
    /\ oldRows > 0
    /\ CountOp(stmts, "TRUNCATE") = 1
    /\ CountOp(stmts, "INSERT") >= 1
    /\ CountOp(stmts, "COMMIT") = 0
    /\ Last(stmts).op = "ROLLBACK"

\* C2: at every point during and after a load, a reader of table games sees
\* either the complete pre-load row set or the complete new dataset: never
\* an emptied table, a partial insert or a mix.
Thm_C2_ReadersSeeOldOrNew ==
    /\ committed \in {PreLoad, NewSet}
    /\ observed \in {NoObs, PreLoad, NewSet}
    /\ committed = NewSet /\ NewSet # PreLoad => lpc = "done"

\* A reader has read the table while the loader is between two pages of a
\* multi-page insert into a table that held rows.
Wit_C2_ReadDuringInsert ==
    /\ lpc = "insert"
    /\ 0 < sent
    /\ sent < records
    /\ oldRows > 0
    /\ observed = PreLoad
    /\ txn = Table(0, sent)

\* C3: a CSV that lacks required columns makes the loader fail with an error
\* that lists every missing column, before a connection is opened or a
\* statement is sent; table games is unchanged.
Thm_C3_SchemaMismatchFailsFast ==
    (ExpectedSet \ csvCols # {} /\ lpc # "validate") =>
        /\ lpc = "failed"
        /\ lRaised = "ValueError"
        /\ { errCols[i] : i \in 1..Len(errCols) } = ExpectedSet \ csvCols
        /\ Len(errCols) = Cardinality(ExpectedSet \ csvCols)
        /\ ~connOpened
        /\ stmts = << >>
        /\ committed = PreLoad

\* The loader has rejected a CSV that lacks several columns; the table held rows.
Wit_C3_SeveralMissing ==
    /\ lpc = "failed"
    /\ Cardinality(ExpectedSet \ csvCols) >= 2
    /\ Len(errCols) >= 2
    /\ oldRows > 0

\* C9 as stated: whatever the size of the dataset, a run sends exactly one
\* TRUNCATE, then exactly one INSERT carrying all rows, then exactly one
\* COMMIT; on a failure exactly one ROLLBACK and no COMMIT.
Orig_C9_OneInsertAnySize ==
    /\ lpc = "done" =>
            stmts = << Stmt("TRUNCATE", 0), Stmt("INSERT", nRows), Stmt("COMMIT", 0) >>
    /\ (lpc = "failed" /\ connOpened) =>
            /\ CountOp(stmts, "ROLLBACK") = 1
            /\ CountOp(stmts, "COMMIT") = 0
            /\ CountOp(stmts, "INSERT") <= 1

\* Statement i of the run comes in the order TRUNCATE, INSERT*, COMMIT?, ROLLBACK?.
InOrder(s, i) ==
    CASE s[i].op = "TRUNCATE" -> i = 1
      [] s[i].op = "INSERT"   -> /\ i > 1
                                 /\ s[i - 1].op \in {"TRUNCATE", "INSERT"}
                                 /\ s[i].rows \in 1..PageSize
      [] s[i].op = "COMMIT"   -> /\ i = NumPages(nRows) + 2
                                 /\ s[i - 1].op \in {"TRUNCATE", "INSERT"}
                                 /\ SumRows(SubSeq(s, 1, i - 1)) = nRows
      [] s[i].op = "ROLLBACK" -> i = Len(s) /\ i > 1 /\ lpc = "failed"

\* C9, amended: a run sends one TRUNCATE, then one multi-row INSERT per page
\* of at most PageSize rows (none for an empty dataset), together carrying
\* all rows, then one COMMIT; a failing step is followed by exactly one
\* ROLLBACK, the last statement, and no COMMIT was sent unless the COMMIT is
\* the step that failed.
Thm_C9_OneInsertPerPage ==
    /\ \A i \in 1..Len(stmts) : InOrder(stmts, i)
    /\ CountOp(stmts, "INSERT") <= NumPages(nRows)
    /\ lpc = "done" =>
            /\ Len(stmts) = NumPages(nRows) + 2
            /\ Last(stmts).op = "COMMIT"
            /\ CountOp(stmts, "ROLLBACK") = 0
    /\ (lpc = "failed" /\ connOpened) =>
            /\ CountOp(stmts, "ROLLBACK") = 1
            /\ Last(stmts).op = "ROLLBACK"
            /\ CountOp(stmts, "COMMIT") <= 1

\* A load of more than one page has committed.
Wit_C9_MultiPageCommitted ==
    /\ lpc = "done"
    /\ nRows > PageSize
    /\ CountOp(stmts, "INSERT") >= 2
    /\ committed = NewSet

----------------------------------------------------------------------------
(* Properties of the Cleaner *)

\* The retention rule as the specification words it.
Retained(r) ==
    /\ r.release_date
    /\ r.total_reviews # Absent
    /\ r.owners_proxy
    /\ r.original_price_cents
    /\ r.total_reviews >= 50

\* C7: the filter step keeps a record exactly when release_date,
\* total_reviews, owners_proxy and original_price_cents are present and
\* total_reviews >= 50, each record decided on its own; every row the
\* Cleaner writes has total_reviews >= 50 and none of the four absent.
Thm_C7_FilterKeepsExactly ==
    /\ kpc \in {"derive", "write", "done"} => df_clean = SelectSeq(raw, Retained)
    /\ kWritten =>
            /\ cleanOut = SelectSeq(raw, Retained)
            /\ \A i \in 1..Len(cleanOut) :
                    /\ cleanOut[i].total_reviews >= 50
                    /\ cleanOut[i].release_date
                    /\ cleanOut[i].owners_proxy
                    /\ cleanOut[i].original_price_cents

\* The Cleaner has written a row with exactly 50 reviews and has dropped a
\* record with 49 reviews or a record without owners_proxy.
Wit_C7_BoundaryKeptOthersDropped ==
    /\ kWritten
    /\ \E i \in 1..Len(cleanOut) : cleanOut[i].total_reviews = 50
    /\ \E i \in 1..Len(raw) :
            \/ raw[i].total_reviews = 49
            \/ (~raw[i].owners_proxy /\ raw[i].total_reviews = 50)

\* C8 as stated: when the input is empty or no record survives the filter,
\* the Cleaner completes without error and writes an empty dataset.
Orig_C8_EmptyStillSucceeds ==
    (kpc \in {"done", "failed"} /\ SelectSeq(raw, Retained) = << >>) =>
        /\ kpc = "done"
        /\ kRaised = "none"
        /\ kWritten
        /\ cleanOut = << >>

----------------------------------------------------------------------------
(* Properties of the Collector *)

Emitted(id) == \E i \in 1..Len(results) : results[i].app_id = id

InListing(id) == \E i \in 1..Len(app_ids) : app_ids[i] = id

\* C4 as stated: a record is emitted for an identifier exactly when its
\* metadata reports a game (and the row can be assembled from it); a failed
\* review-summary or owner-estimate call only leaves its field absent.
Orig_C4_RecordIffGame ==
    cpc = "done" =>
        \A id \in Ids :
            InListing(id) =>
                (Emitted(id) <=> (detailsOut[id] = "game" /\ rowOut[id] # "exception"))

\* What the identifier contributes to results, from the outcomes of its calls.
Contribution(id) ==
    IF /\ detailsOut[id] = "game"
       /\ reviewOut[id] \in {"ok", "bad_status"}
       /\ rowOut[id] = "ok"
    THEN << [ app_id |-> id,
              total_reviews |-> reviewOut[id] = "ok",
              owners_proxy |-> ownersOut[id] = "ok" ] >>
    ELSE << >>

RECURSIVE Fold(_)
Fold(ids) == IF ids = << >> THEN << >> ELSE Contribution(Head(ids)) \o Fold(Tail(ids))

ItemFailed(id) ==
    \/ detailsOut[id] = "exception"
    \/ reviewOut[id] \in {"invalid_body", "transport"}
    \/ rowOut[id] = "exception"

C5_State ==
    /\ Len(visited) <= Len(app_ids)
    /\ visited = SubSeq(app_ids, 1, Len(visited))
    /\ listOut \in {"ok", "no_apps"} => (cpc # "failed" /\ cRaised = "none")
    /\ cpc = "done" =>
            /\ visited = app_ids
            /\ cWritten
            /\ cOut = results
            /\ results = Fold(app_ids)

\* C5: once the listing has succeeded, no failure while processing one
\* identifier aborts the run: every identifier is processed in listing
\* order, a failing one is skipped, the records of the others are what their
\* own calls gave, and the run ends by writing the accumulated records.
Thm_C5_ItemFailureNeverAborts ==
    /\ []C5_State
    /\ (listOut \in {"ok", "no_apps"}) ~> (cpc = "done" /\ cWritten)

\* The run has ended after an exception on the first identifier, and the
\* second identifier's record has been written.
Wit_C5_FailedThenEmitted ==
    /\ cpc = "done"
    /\ Len(app_ids) = 2
    /\ ItemFailed(app_ids[1])
    /\ Len(cOut) = 1
    /\ cOut[1].app_id = app_ids[2]

PerItemCalls ==
    { id \in Ids : detailsOut[id] # "none" \/ reviewOut[id] # "none"
                   \/ ownersOut[id] # "none" }

Orig_C10_PauseBetweenItems ==
    (cpc = "details" /\ idx > 1) => slept

====
